---- MODULE Spec2Model ----
(***************************************************************************)
(* Model of the personal-notes boolean search engine:                      *)
(*   lib/memo/search.py  (plain search: tokenizer, implicit AND,           *)
(*                        shunting-yard, RPN evaluator, search_plain)      *)
(*   lib/memo/db.py      (_prefixify_query, the FTS MATCH compiler)        *)
(*                                                                         *)
(* Text is a sequence of characters.  A character is a one-letter string,  *)
(* or a mnemonic for a character that cannot be written literally:         *)
(*   "DQ"   the double quote U+0022      "NL"   newline                    *)
(*   "TAB"  tab                          "IDSP" ideographic space U+3000   *)
(*   "FWLP" full-width ( U+FF08          "FWRP" full-width ) U+FF09        *)
(***************************************************************************)
EXTENDS Integers, Sequences, FiniteSets, TLC

VARIABLES
    pc,      \* position of the caller: which call has been made
    query,   \* the raw query string handed to the entry point
    hay,     \* one haystack string (evaluation of a single note)
    notes,   \* search_plain: the metas in iteration order, with the JSON read for each
    limit,   \* search_plain: the limit argument
    toks,    \* token list (_tokenize result, or the input of _to_rpn)
    rpn,     \* compiled RPN program
    res,     \* boolean returned by _eval_rpn
    hits,    \* list returned by search_plain (note ids)
    fts,     \* string returned by _prefixify_query
    i,       \* _to_rpn / _eval_rpn: index of the next token of the for loop
    out,     \* _to_rpn: output list
    stack,   \* _to_rpn: operator stack
    st,      \* _eval_rpn: boolean stack
    nidx,    \* search_plain: position of the for loop over the metas
    text,    \* highlight_text_html: the text argument
    terms,   \* term list returned by an extractor, or used for marking
    html     \* string returned by highlight_text_html

vars == <<pc, query, hay, notes, limit, toks, rpn, res, hits, fts, i, out, stack, st,
          nidx, text, terms, html>>

(***************************************************************************)
(* Bounds of the model                                                     *)
(***************************************************************************)
MaxLex == 4

MaxWords == 4

MaxToks == 4

MaxNotes == 3

MaxLimit == 2

MaxFtsLex == 4

(***************************************************************************)
(* Generic sequence helpers                                                *)
(***************************************************************************)
SeqsUpTo(S, n) == UNION {[1..k -> S] : k \in 0..n}

RECURSIVE Concat(_)
Concat(ss) == IF ss = <<>> THEN <<>> ELSE Head(ss) \o Concat(Tail(ss))

RECURSIVE JoinWith(_, _)
JoinWith(ss, sep) ==
    IF ss = <<>> THEN <<>>
    ELSE IF Len(ss) = 1 THEN Head(ss)
    ELSE Head(ss) \o sep \o JoinWith(Tail(ss), sep)

Last(s) == s[Len(s)]

Front(s) == SubSeq(s, 1, Len(s) - 1)

\* Python's `t in h` on strings
IsSubstr(t, h) ==
    \E k \in 0..(Len(h) - Len(t)) : SubSeq(h, k + 1, k + Len(t)) = t

(***************************************************************************)
(* Characters: str.isspace, str.lower, str.upper, str.isalnum, NFKC        *)
(***************************************************************************)
SpaceChars == {" ", "TAB", "NL", "IDSP"}

IsSpace(c) == c \in SpaceChars

LowerCh(c) ==
    CASE c = "A" -> "a" [] c = "B" -> "b" [] c = "C" -> "c" [] c = "D" -> "d"
      [] c = "N" -> "n" [] c = "O" -> "o" [] c = "R" -> "r" [] c = "T" -> "t"
      [] c = "L" -> "l" [] c = "FWO" -> "fwo" [] c = "FWR" -> "fwr"
      [] OTHER -> c

UpperCh(c) ==
    CASE c = "a" -> "A" [] c = "b" -> "B" [] c = "c" -> "C" [] c = "d" -> "D"
      [] c = "n" -> "N" [] c = "o" -> "O" [] c = "r" -> "R" [] c = "t" -> "T"
      [] c = "l" -> "L" [] c = "fwo" -> "FWO" [] c = "fwr" -> "FWR"
      [] OTHER -> c

\* the ASCII letters and digits in use: the lower-case letters, the capitals
\* that LowerCh maps, the digits
AsciiAlnumChars ==
    {"a", "b", "c", "d", "e", "f", "g", "h", "i", "j", "k", "l", "m",
     "n", "o", "p", "q", "r", "s", "t", "u", "v", "w", "x", "y", "z",
     "A", "B", "C", "D", "L", "N", "O", "R", "T",
     "0", "1", "2", "3", "4", "5", "6", "7", "8", "9"}

\* with a kanji and the full-width letters O, R ("FWO", "FWR") and o, r
AlnumChars == AsciiAlnumChars \cup {"KANJI", "FWO", "FWR", "fwo", "fwr"}

IsAlnum(c) == c \in AlnumChars

\* NFKC of one character (compatibility forms fold to ASCII)
NfkcCh(c) ==
    CASE c = "FWLP" -> <<"(">>
      [] c = "FWRP" -> <<")">>
      [] c = "IDSP" -> <<" ">>
      [] c = "FWO" -> <<"O">>
      [] c = "FWR" -> <<"R">>
      [] c = "fwo" -> <<"o">>
      [] c = "fwr" -> <<"r">>
      [] c = "FWMINUS" -> <<"-">>
      [] OTHER -> <<c>>

NFKC(s) == Concat([k \in 1..Len(s) |-> NfkcCh(s[k])])

Lower(s) == [k \in 1..Len(s) |-> LowerCh(s[k])]

Upper(s) == [k \in 1..Len(s) |-> UpperCh(s[k])]

RECURSIVE LStrip(_)
LStrip(s) == IF s # <<>> /\ IsSpace(Head(s)) THEN LStrip(Tail(s)) ELSE s

RECURSIVE RStrip(_)
RStrip(s) == IF s # <<>> /\ IsSpace(Last(s)) THEN RStrip(Front(s)) ELSE s

\* str.strip()
Strip(s) == RStrip(LStrip(s))

\* re.sub(r"\s+", " ", s): every maximal run of whitespace becomes one " "
RECURSIVE SubWs(_, _)
SubWs(s, k) ==
    IF k > Len(s) THEN <<>>
    ELSE IF IsSpace(s[k])
         THEN (IF k > 1 /\ IsSpace(s[k - 1]) THEN <<>> ELSE <<" ">>) \o SubWs(s, k + 1)
         ELSE <<s[k]>> \o SubWs(s, k + 1)

\* _norm_text
NormText(s) == Strip(SubWs(Lower(NFKC(s)), 1))

(***************************************************************************)
(* Tokens                                                                  *)
(***************************************************************************)
TOKEN_AND == "AND"

TOKEN_OR == "OR"

TOKEN_LP == "("

TOKEN_RP == ")"

TOKEN_TERM == "TERM"

\* _Tok(kind, val); val is text
Tok(kind, val) == [kind |-> kind, val |-> val]

TokAnd == Tok(TOKEN_AND, <<"A", "N", "D">>)

TokOr == Tok(TOKEN_OR, <<"O", "R">>)

TokLP == Tok(TOKEN_LP, <<"(">>)

TokRP == Tok(TOKEN_RP, <<")">>)

TokTerm(val) == Tok(TOKEN_TERM, val)

(***************************************************************************)
(* _tokenize                                                               *)
(***************************************************************************)
\* inner while of the quoted branch: first j >= k with q[j] = '"', else n + 1
RECURSIVE QuoteEnd(_, _)
QuoteEnd(q, k) ==
    IF k > Len(q) THEN k
    ELSE IF q[k] = "DQ" THEN k
    ELSE QuoteEnd(q, k + 1)

\* inner while of the normal branch: first j >= k at whitespace, paren or quote
RECURSIVE WordEnd(_, _)
WordEnd(q, k) ==
    IF k > Len(q) THEN k
    ELSE IF IsSpace(q[k]) \/ q[k] \in {"(", ")", "DQ"} THEN k
    ELSE WordEnd(q, k + 1)

\* classification of a normal word
WordTok(raw_norm) ==
    IF raw_norm = <<"a", "n", "d">> THEN <<TokAnd>>
    ELSE IF raw_norm = <<"o", "r">> THEN <<TokOr>>
    ELSE IF raw_norm # <<>> THEN <<TokTerm(raw_norm)>>
    ELSE <<>>

\* tokens.append for a quoted phrase: only when the normalized phrase is non-empty
PhraseTokUnchecked(phrase) == <<TokTerm(phrase)>>

PhraseTokAsWord(phrase) == WordTok(phrase)

PhraseTok(phrase) == IF phrase # <<>> THEN <<TokTerm(phrase)>> ELSE <<>>

\* the main while loop, from index k (1-based) with the tokens found so far
RECURSIVE TokScan(_, _, _)
TokScan(q, k, tokens) ==
    IF k > Len(q) THEN tokens
    ELSE LET ch == q[k] IN
         IF IsSpace(ch) THEN TokScan(q, k + 1, tokens)
         ELSE IF ch = "(" THEN TokScan(q, k + 1, Append(tokens, TokLP))
         ELSE IF ch = ")" THEN TokScan(q, k + 1, Append(tokens, TokRP))
         ELSE IF ch = "DQ"
              THEN LET j == QuoteEnd(q, k + 1)
                       phrase == NormText(SubSeq(q, k + 1, j - 1))
                       nxt == IF j <= Len(q) /\ q[j] = "DQ" THEN j + 1 ELSE j
                   IN  TokScan(q, nxt, tokens \o PhraseTok(phrase))
              ELSE LET j == WordEnd(q, k)
                       raw_norm == NormText(SubSeq(q, k, j - 1))
                   IN  TokScan(q, j, tokens \o WordTok(raw_norm))

Tokenize(qry) ==
    LET q == Strip(NFKC(qry))
    IN  IF q = <<>> THEN <<>> ELSE TokScan(q, 1, <<>>)

(***************************************************************************)
(* Python primitives that can raise                                        *)
(***************************************************************************)
\* list.pop(): IndexError on an empty list
ListPop(s) ==
    IF s = <<>> THEN [raised |-> TRUE, val |-> FALSE, rest |-> s]
    ELSE [raised |-> FALSE, val |-> Last(s), rest |-> Front(s)]

\* prec = {AND: 2, OR: 1}
Prec == (TOKEN_AND :> 2) @@ (TOKEN_OR :> 1)

(***************************************************************************)
(* _insert_implicit_and                                                    *)
(***************************************************************************)
\* the test on the previous token with the operators counted as values
PrevIsValueLoose(prev) == prev.kind \in {TOKEN_TERM, TOKEN_RP, TOKEN_AND, TOKEN_OR}

\* the test on the previous token with the RParen left out
PrevIsTermOnly(prev) == prev.kind = TOKEN_TERM

PrevIsValue(prev) == prev.kind \in {TOKEN_TERM, TOKEN_RP}

\* the test on the current token with Or counted as a value
CurIsValueLoose(t) == t.kind \in {TOKEN_TERM, TOKEN_LP, TOKEN_OR}

\* the test on the current token with the LParen left out
CurIsTermOnly(t) == t.kind = TOKEN_TERM

CurIsValue(t) == t.kind \in {TOKEN_TERM, TOKEN_LP}

RECURSIVE InsLoop(_, _, _)
InsLoop(ts, k, acc) ==
    IF k > Len(ts) THEN acc
    ELSE LET t == ts[k]
             need_and == acc # <<>> /\ PrevIsValue(Last(acc)) /\ CurIsValue(t)
         IN  InsLoop(ts, k + 1,
                     Append(IF need_and THEN Append(acc, TokAnd) ELSE acc, t))

InsertImplicitAnd(ts) == IF ts = <<>> THEN ts ELSE InsLoop(ts, 1, <<>>)

(***************************************************************************)
(* _to_rpn (shunting-yard)                                                 *)
(***************************************************************************)
IsOp(t) == t.kind \in {TOKEN_AND, TOKEN_OR}

\* condition of the operator branch's while body: pop the stack top?
PopsAnyOp(top, t) == IsOp(top)

PopsBefore(top, t) == IsOp(top) /\ Prec[top.kind] >= Prec[t.kind]

\* while stack: pop operators of precedence >= t's to the output
RECURSIVE PopOps(_, _, _)
PopOps(o, s, t) ==
    IF s # <<>> /\ PopsBefore(Last(s), t)
    THEN PopOps(Append(o, Last(s)), Front(s), t)
    ELSE [out |-> o, stack |-> s]

\* while stack and stack[-1].kind != LP: pop to the output
RECURSIVE PopToLP(_, _)
PopToLP(o, s) ==
    IF s # <<>> /\ Last(s).kind # TOKEN_LP
    THEN PopToLP(Append(o, Last(s)), Front(s))
    ELSE [out |-> o, stack |-> s]

\* the RP branch: pop to the LP and discard it; an unmatched RP leaves the rest
CloseParen(o, s) ==
    LET p == PopToLP(o, s)
    IN  IF p.stack # <<>> /\ Last(p.stack).kind = TOKEN_LP
        THEN [out |-> p.out, stack |-> Front(p.stack)]
        ELSE p

\* no final drain: what is left on the stack is not emitted
DrainNothing(o, s) == o

\* the final drain: pop everything, dropping parentheses
RECURSIVE Drain(_, _)
Drain(o, s) ==
    IF s = <<>> THEN o
    ELSE IF Last(s).kind \in {TOKEN_LP, TOKEN_RP} THEN Drain(o, Front(s))
    ELSE Drain(Append(o, Last(s)), Front(s))

RECURSIVE RpnLoop(_, _, _, _)
RpnLoop(ts, k, o, s) ==
    IF k > Len(ts) THEN Drain(o, s)
    ELSE LET t == ts[k] IN
         IF t.kind = TOKEN_TERM THEN RpnLoop(ts, k + 1, Append(o, t), s)
         ELSE IF IsOp(t)
              THEN LET p == PopOps(o, s, t)
                   IN  RpnLoop(ts, k + 1, p.out, Append(p.stack, t))
         ELSE IF t.kind = TOKEN_LP THEN RpnLoop(ts, k + 1, o, Append(s, t))
         ELSE IF t.kind = TOKEN_RP
              THEN LET p == CloseParen(o, s)
                   IN  RpnLoop(ts, k + 1, p.out, p.stack)
         ELSE RpnLoop(ts, k + 1, o, s)

ToRpn(ts) == RpnLoop(ts, 1, <<>>, <<>>)

(***************************************************************************)
(* _eval_rpn                                                               *)
(***************************************************************************)
\* `st.pop() if st else False`
PopNoGuard(s) == ListPop(s)

PopOrTrue(s) ==
    IF s # <<>> THEN ListPop(s) ELSE [raised |-> FALSE, val |-> TRUE, rest |-> s]

PopOrFalse(s) ==
    IF s # <<>> THEN ListPop(s) ELSE [raised |-> FALSE, val |-> FALSE, rest |-> s]

\* bool(t.val) and (t.val in hay)
TermIsPrefix(t, h) == t.val # <<>> /\ Len(t.val) <= Len(h) /\ SubSeq(h, 1, Len(t.val)) = t.val

TermMatches(t, h) == t.val # <<>> /\ IsSubstr(t.val, h)

\* one iteration in which an operator that finds fewer than two values on the
\* stack does nothing
EvalTokRSkipsUnderflow(s, t, h) ==
    IF t.kind = TOKEN_TERM THEN [st |-> Append(s, TermMatches(t, h)), raised |-> FALSE]
    ELSE IF IsOp(t) /\ Len(s) >= 2
         THEN LET a == s[Len(s) - 1]
                  b == s[Len(s)]
              IN  [st |-> Append(SubSeq(s, 1, Len(s) - 2),
                                 IF t.kind = TOKEN_AND THEN a /\ b ELSE a \/ b),
                   raised |-> FALSE]
    ELSE [st |-> s, raised |-> FALSE]

\* one iteration in which Or is true when exactly one operand is
EvalTokROrIsXor(s, t, h) ==
    IF t.kind = TOKEN_TERM THEN [st |-> Append(s, TermMatches(t, h)), raised |-> FALSE]
    ELSE IF IsOp(t)
         THEN LET pb == PopOrFalse(s)
                  pa == PopOrFalse(pb.rest)
              IN  [st |-> IF t.kind = TOKEN_AND
                          THEN Append(pa.rest, pa.val /\ pb.val)
                          ELSE Append(pa.rest, pa.val # pb.val),
                   raised |-> pb.raised \/ pa.raised]
    ELSE [st |-> s, raised |-> FALSE]

\* one iteration of the for loop: the stack after token t, and whether a pop raised
EvalTokR(s, t, h) ==
    IF t.kind = TOKEN_TERM THEN [st |-> Append(s, TermMatches(t, h)), raised |-> FALSE]
    ELSE IF IsOp(t)
         THEN LET pb == PopOrFalse(s)
                  pa == PopOrFalse(pb.rest)
              IN  [st |-> IF t.kind = TOKEN_AND
                          THEN Append(pa.rest, pa.val /\ pb.val)
                          ELSE Append(pa.rest, pa.val \/ pb.val),
                   raised |-> pb.raised \/ pa.raised]
    ELSE [st |-> s, raised |-> FALSE]

EvalTok(s, t, h) == EvalTokR(s, t, h).st

RECURSIVE EvalLoop(_, _, _, _)
EvalLoop(prog, k, s, h) ==
    IF k > Len(prog) THEN s ELSE EvalLoop(prog, k + 1, EvalTok(s, prog[k], h), h)

\* `return st[-1] if st else False`
StackResult(s) == IF s # <<>> THEN Last(s) ELSE FALSE

EvalRpn(prog, h) == StackResult(EvalLoop(prog, 1, <<>>, h))

\* _compile_query_to_rpn
CompileQueryToRpn(qry) == ToRpn(InsertImplicitAnd(Tokenize(qry)))

(***************************************************************************)
(* Haystack of a note (search_plain, the body of the for loop)             *)
(***************************************************************************)
\* tags_str = " ".join(str(x) for x in tags)
TagsStr(tags) == JoinWith(tags, <<" ">>)

HaystackSpaces(title, content, tags) ==
    NormText(title) \o <<" ">> \o NormText(content) \o <<" ">> \o NormText(TagsStr(tags))

Haystack(title, content, tags) ==
    NormText(title) \o <<"NL">> \o NormText(content) \o <<"NL">> \o NormText(TagsStr(tags))

(***************************************************************************)
(* search_plain                                                            *)
(***************************************************************************)
\* a note as the loop sees it: ok is `isinstance(d, dict)` for the JSON read
Note(ok, title, content, tags) ==
    [ok |-> ok, title |-> title, content |-> content, tags |-> tags]

NoteHay(n) == Haystack(n.title, n.content, n.tags)

\* hits.append(m): metas are identified by their position in the iteration
PrependHit(h, k) == <<k>> \o h

AddHit(h, k) == Append(h, k)

\* the for loop over metas, from index k with the hits so far
RECURSIVE HitsLoop(_, _, _, _, _)
HitsLoop(prog, ns, k, h, lim) ==
    IF k > Len(ns) THEN h
    ELSE IF ~ns[k].ok THEN HitsLoop(prog, ns, k + 1, h, lim)
    ELSE IF EvalRpn(prog, NoteHay(ns[k]))
         THEN LET h2 == AddHit(h, k)
              IN  IF Len(h2) >= lim THEN h2 ELSE HitsLoop(prog, ns, k + 1, h2, lim)
    ELSE HitsLoop(prog, ns, k + 1, h, lim)

SearchPlainHits(qry, ns, lim) ==
    LET q == Strip(qry)
    IN  IF q = <<>> THEN <<>>
        ELSE LET prog == CompileQueryToRpn(q)
             IN  IF prog = <<>> THEN <<>> ELSE HitsLoop(prog, ns, 1, <<>>, lim)

(***************************************************************************)
(* Specification SpecTok: a caller tokenizes one query string              *)
(***************************************************************************)
TokLex ==
    {<<"a">>, <<"O", "r">>, <<"a", "n", "d">>, <<" ">>, <<"(">>, <<"FWRP">>,
     <<"DQ">>, <<"IDSP">>}

TokQueries == {Concat(ls) : ls \in SeqsUpTo(TokLex, MaxLex)}

Idle ==
    /\ hay = <<>> /\ notes = <<>> /\ limit = 0
    /\ toks = <<>> /\ rpn = <<>> /\ res = FALSE /\ hits = <<>> /\ fts = <<>>
    /\ i = 0 /\ out = <<>> /\ stack = <<>> /\ st = <<>>
    /\ nidx = 0 /\ text = <<>> /\ terms = <<>> /\ html = <<>>

InitTok ==
    /\ pc = "start"
    /\ query \in TokQueries
    /\ Idle

DoTokenize ==
    /\ pc = "start"
    /\ toks' = Tokenize(query)
    /\ pc' = "tokenized"
    /\ UNCHANGED <<query, hay, notes, limit, rpn, res, hits, fts, i, out, stack, st, nidx, text, terms, html>>

NextTok == DoTokenize

SpecTok == InitTok /\ [][NextTok]_vars

\* C9: every Term token emitted by _tokenize has non-empty text.
C9_TermsNonEmpty ==
    pc = "tokenized" =>
        \A k \in 1..Len(toks) : toks[k].kind = TOKEN_TERM => toks[k].val # <<>>

\* an empty quoted phrase is dropped and the word after it is the only Term
C9_Witness ==
    /\ pc = "tokenized"
    /\ query = <<"DQ", " ", "DQ", "a">>
    /\ toks = <<TokTerm(<<"a">>)>>

\* the first double quote of q, the quote closing it (Len(q) + 1 when the quote
\* is unterminated), and the text between them
FirstQuote(q) == QuoteEnd(q, 1)

ClosingQuote(q) == QuoteEnd(q, FirstQuote(q) + 1)

QuotedBody(q) == SubSeq(q, FirstQuote(q) + 1, ClosingQuote(q) - 1)

\* C8: a double-quoted span becomes exactly one Term holding the normalized
\* phrase (inner whitespace as single spaces); "and"/"or" and parentheses inside
\* it never become And/Or/LParen/RParen; an unterminated quote takes the rest of
\* the input as the phrase; an empty phrase emits no token.  Stated on the first
\* quoted span: the tokens are those of the text before it, then the one Term
\* (or nothing), then those of the text after the closing quote.
C8_QuotedSpanIsOneTerm ==
    LET q == Strip(NFKC(query)) IN
    (pc = "tokenized" /\ FirstQuote(q) <= Len(q)) =>
        toks = Tokenize(SubSeq(q, 1, FirstQuote(q) - 1))
               \o (IF NormText(QuotedBody(q)) # <<>>
                   THEN <<TokTerm(NormText(QuotedBody(q)))>>
                   ELSE <<>>)
               \o Tokenize(SubSeq(q, ClosingQuote(q) + 1, Len(q)))

\* an unterminated quote holding the word "Or", a space and a parenthesis
C8_Witness ==
    /\ pc = "tokenized"
    /\ query = <<"DQ", "O", "r", " ", "(">>
    /\ toks = <<TokTerm(<<"o", "r", " ", "(">>)>>

(***************************************************************************)
(* _prefixify_query (lib/memo/db.py)                                       *)
(***************************************************************************)
FtsKeywords == {<<"O", "R">>, <<"A", "N", "D">>, <<"N", "O", "T">>}

AllNonAlnum(tok) == \A k \in 1..Len(tok) : ~IsAlnum(tok[k])

\* flush(tok): the list `out` after the call
FtsFlushAlwaysStar(o, tok0) ==
    LET tok == Strip(tok0) IN
    IF tok = <<>> THEN o
    ELSE IF Upper(tok) \in FtsKeywords THEN Append(o, tok)
    ELSE IF AllNonAlnum(tok) THEN Append(o, tok)
    ELSE Append(o, tok \o <<"*">>)

\* flush(tok) looking for the "*" at the start of the token
FtsFlushStarFirst(o, tok0) ==
    LET tok == Strip(tok0) IN
    IF tok = <<>> THEN o
    ELSE IF Upper(tok) \in FtsKeywords THEN Append(o, tok)
    ELSE IF tok[1] = "*" THEN Append(o, tok)
    ELSE IF AllNonAlnum(tok) THEN Append(o, tok)
    ELSE Append(o, tok \o <<"*">>)

FtsFlush(o, tok0) ==
    LET tok == Strip(tok0) IN
    IF tok = <<>> THEN o
    ELSE IF Upper(tok) \in FtsKeywords THEN Append(o, tok)
    ELSE IF Last(tok) = "*" THEN Append(o, tok)
    ELSE IF AllNonAlnum(tok) THEN Append(o, tok)
    ELSE Append(o, tok \o <<"*">>)

\* the loop with the quote handling left out: a double quote is an ordinary
\* character of a token
RECURSIVE FtsLoopSplitsQuoted(_, _, _, _, _)
FtsLoopSplitsQuoted(q, k, o, token, in_quote) ==
    IF k > Len(q) THEN FtsFlush(o, token)
    ELSE IF IsSpace(q[k]) THEN FtsLoopSplitsQuoted(q, k + 1, FtsFlush(o, token), <<>>, in_quote)
    ELSE FtsLoopSplitsQuoted(q, k + 1, o, Append(token, q[k]), in_quote)

\* `for ch in q`, from index k with the locals out, token, in_quote; then the
\* handling of the last token
RECURSIVE FtsLoop(_, _, _, _, _)
FtsLoop(q, k, o, token, in_quote) ==
    IF k > Len(q)
    THEN IF in_quote THEN Append(o, token) ELSE FtsFlush(o, token)
    ELSE LET ch == q[k] IN
         IF ch = "DQ"
         THEN IF in_quote
              THEN FtsLoop(q, k + 1, Append(o, Append(token, ch)), <<>>, FALSE)
              ELSE FtsLoop(q, k + 1,
                           IF Strip(token) # <<>> THEN FtsFlush(o, token) ELSE o,
                           <<"DQ">>, TRUE)
         ELSE IF in_quote THEN FtsLoop(q, k + 1, o, Append(token, ch), in_quote)
         ELSE IF IsSpace(ch) THEN FtsLoop(q, k + 1, FtsFlush(o, token), <<>>, in_quote)
         ELSE FtsLoop(q, k + 1, o, Append(token, ch), in_quote)

PrefixifyQuery(qry) ==
    LET q == Strip(qry)
    IN  IF q = <<>> THEN q ELSE JoinWith(FtsLoop(q, 1, <<>>, <<>>, FALSE), <<" ">>)

(***************************************************************************)
(* Specification SpecFts: a caller compiles one query for the FTS index    *)
(***************************************************************************)
FtsLex ==
    {<<"a">>, <<"O", "r">>, <<"n", "o", "t">>, <<"A", "N", "D">>, <<"*">>, <<"-">>,
     <<" ">>, <<"IDSP">>, <<"DQ">>}

FtsQueries == {Concat(ls) : ls \in SeqsUpTo(FtsLex, MaxFtsLex)}

InitFts ==
    /\ pc = "start"
    /\ query \in FtsQueries
    /\ Idle

DoPrefixify ==
    /\ pc = "start"
    /\ fts' = PrefixifyQuery(query)
    /\ pc' = "prefixified"
    /\ UNCHANGED <<query, hay, notes, limit, toks, rpn, res, hits, i, out, stack, st, nidx, text, terms, html>>

NextFts == DoPrefixify

SpecFts == InitFts /\ [][NextFts]_vars

\* str.split(): the maximal runs of non-whitespace characters, in order
RECURSIVE SplitWs(_, _, _)
SplitWs(s, k, cur) ==
    IF k > Len(s) THEN (IF cur = <<>> THEN <<>> ELSE <<cur>>)
    ELSE IF IsSpace(s[k])
         THEN (IF cur = <<>> THEN <<>> ELSE <<cur>>) \o SplitWs(s, k + 1, <<>>)
         ELSE SplitWs(s, k + 1, Append(cur, s[k]))

\* what C10 says of one token
C10_Token(w) ==
    IF \/ Lower(w) \in {<<"a", "n", "d">>, <<"o", "r">>, <<"n", "o", "t">>}
       \/ Last(w) = "*"
       \/ ~\E k \in 1..Len(w) : IsAlnum(w[k])
    THEN w
    ELSE w \o <<"*">>

NoQuote(s) == \A k \in 1..Len(s) : s[k] # "DQ"

\* C10: for every query without double quotes, _prefixify_query returns the
\* whitespace-separated tokens of the input, in order, joined by single spaces;
\* a token is unchanged if it is AND/OR/NOT in any letter case, already ends in
\* "*", or has no alphanumeric character; every other token gets exactly one "*".
C10_PrefixifyUnquoted ==
    (pc = "prefixified" /\ NoQuote(query)) =>
        LET ws == SplitWs(query, 1, <<>>)
        IN  fts = JoinWith([k \in 1..Len(ws) |-> C10_Token(ws[k])], <<" ">>)

\* a bareword and a keyword in mixed case, separated by an ideographic space
C10_Witness ==
    /\ pc = "prefixified"
    /\ query = <<"a", "IDSP", "O", "r">>
    /\ fts = <<"a", "*", " ", "O", "r">>

\* the unquoted tokens of a piece of the query, as C10 describes them
C11_Bare(s) ==
    LET ws == SplitWs(s, 1, <<>>) IN [k \in 1..Len(ws) |-> C10_Token(ws[k])]

\* the output tokens C11 describes: each quoted span, both quotes included, is
\* one token; so is the remainder from an unterminated opening quote; the text
\* between them is split as in C10
RECURSIVE C11_Expected(_)
C11_Expected(q) ==
    LET p == QuoteEnd(q, 1) IN
    IF p > Len(q) THEN C11_Bare(q)
    ELSE LET c == QuoteEnd(q, p + 1) IN
         IF c > Len(q)
         THEN C11_Bare(SubSeq(q, 1, p - 1)) \o <<SubSeq(q, p, Len(q))>>
         ELSE C11_Bare(SubSeq(q, 1, p - 1)) \o <<SubSeq(q, p, c)>>
                  \o C11_Expected(SubSeq(q, c + 1, Len(q)))

\* C11 as stated: every double-quoted span of the input is one output token,
\* verbatim (inner whitespace kept, no "*", keywords untouched), and the
\* remainder after an unterminated opening quote is emitted verbatim without "*"
C11_QuotedVerbatim ==
    (pc = "prefixified" /\ ~NoQuote(query)) =>
        fts = JoinWith(C11_Expected(query), <<" ">>)

\* C11, amended: the same, of the query with the whitespace at its two ends
\* removed, so the remainder after an unterminated opening quote is emitted
\* without the whitespace that ends the query
C11_QuotedVerbatimStripped ==
    (pc = "prefixified" /\ ~NoQuote(query)) =>
        fts = JoinWith(C11_Expected(Strip(query)), <<" ">>)

\* a quoted keyword followed by an ideographic space, kept as typed
C11_Witness ==
    /\ pc = "prefixified"
    /\ query = <<"DQ", "O", "r", "IDSP", "DQ">>
    /\ fts = query

(***************************************************************************)
(* Specification SpecCompile: a caller compiles one query with             *)
(* _compile_query_to_rpn and evaluates the program on haystacks            *)
(***************************************************************************)
Terms == {<<"a">>, <<"b">>, <<"c">>}

WOr == <<"o", "r">>

WAnd == <<"A", "N", "D">>

CompileWords == Terms \cup {WOr, WAnd, <<"(">>, <<")">>}

WordQueries == {JoinWith(ws, <<" ">>) : ws \in SeqsUpTo(CompileWords, MaxWords)}

\* the precedence and grouping shapes, and shapes with one unbalanced parenthesis
Shapes(x, y, z) ==
    { <<x, WOr, y, WAnd, z>>,
      <<x, WAnd, y, WOr, z>>,
      <<<<"(">> \o x, WOr, y \o <<")">>, WAnd, z>>,
      <<x, WAnd, <<"(">> \o y, WOr, z \o <<")">>>>,
      <<<<"(">> \o x, WOr, y \o <<")">>, z>>,
      <<<<"(">> \o x, WOr, y \o <<")">> \o <<"(">> \o z \o <<")">>>>,
      <<x, WOr, y \o <<")">>, z>>,
      <<x, WOr, y \o <<")">>, WAnd, z>>,
      <<x, <<"(">> \o y, WOr, z>> }

ShapeQueries ==
    UNION {{JoinWith(ws, <<" ">>) : ws \in Shapes(x, y, z)} : x \in Terms, y \in Terms, z \in Terms}

HayTexts ==
    {Haystack(t, c, g) : t \in {<<>>, <<"a">>}, c \in {<<>>, <<"B">>},
                         g \in {<<>>, <<<<"c">>>>}}

InitCompile ==
    /\ pc = "start"
    /\ query \in WordQueries \cup ShapeQueries
    /\ Idle

DoCompile ==
    /\ pc = "start"
    /\ toks' = Tokenize(query)
    /\ rpn' = CompileQueryToRpn(query)
    /\ pc' = "compiled"
    /\ UNCHANGED <<query, hay, notes, limit, res, hits, fts, i, out, stack, st, nidx, text, terms, html>>

DoEval ==
    /\ pc = "compiled"
    /\ \E h \in HayTexts :
          /\ hay' = h
          /\ res' = EvalRpn(rpn, h)
    /\ pc' = "evaluated"
    /\ UNCHANGED <<query, notes, limit, toks, rpn, hits, fts, i, out, stack, st, nidx, text, terms, html>>

NextCompile == DoCompile \/ DoEval

SpecCompile == InitCompile /\ [][NextCompile]_vars

(***************************************************************************)
(* Specification Spec: a caller runs search_plain over the stored notes    *)
(***************************************************************************)
NoteBodies ==
    { Note(FALSE, <<>>, <<>>, <<>>),
      Note(TRUE, <<>>, <<>>, <<>>),
      Note(TRUE, <<"a">>, <<>>, <<>>),
      Note(TRUE, <<>>, <<"A", " ", "b">>, <<>>),
      Note(TRUE, <<"a">>, <<"b">>, <<>>),
      Note(TRUE, <<>>, <<>>, <<<<"b">>, <<"c">>>>) }

SearchQueries ==
    { <<>>, <<" ">>, <<"IDSP">>,
      <<"a">>, <<"A">>, <<" ", "b", " ">>, <<"c">>,
      <<"DQ", "a", " ", "b", "DQ">>, <<"DQ", "a", "NL", "b", "DQ">>,
      <<"DQ", "a">>, <<"a", "DQ", "DQ">>,
      <<"DQ", "DQ">>, <<"(", ")">>, <<"o", "r">>, <<"a", "n", "d">>, <<"(", "O", "R">>,
      <<"a", " ", "b">>, <<"a", " ", "o", "r", " ", "c">> }

InitSearch ==
    /\ pc = "start"
    /\ query \in SearchQueries
    /\ notes \in SeqsUpTo(NoteBodies, MaxNotes)
    /\ limit \in 0..MaxLimit
    /\ hay = <<>> /\ toks = <<>> /\ rpn = <<>> /\ res = FALSE /\ hits = <<>> /\ fts = <<>>
    /\ i = 0 /\ out = <<>> /\ stack = <<>> /\ st = <<>>
    /\ nidx = 0 /\ text = <<>> /\ terms = <<>> /\ html = <<>>

SearchPlain ==
    /\ pc = "start"
    /\ hits' = SearchPlainHits(query, notes, limit)
    /\ pc' = "done"
    /\ UNCHANGED <<query, hay, notes, limit, toks, rpn, res, fts, i, out, stack, st, nidx, text, terms, html>>

NextSearch == SearchPlain

Spec == InitSearch /\ [][NextSearch]_vars

(***************************************************************************)
(* Specification SpecRpn: _to_rpn and then _eval_rpn run step by step on   *)
(* an arbitrary token list; one step is one iteration of a loop            *)
(*   rpn_for    top of `for t in toks`                                     *)
(*   rpn_op     in the while of the AND/OR branch                          *)
(*   rpn_rp     in the while of the RP branch                              *)
(*   rpn_drain  in the final `while stack`                                 *)
(*   eval_for   top of `for t in rpn` of _eval_rpn                         *)
(*   done       _eval_rpn has returned        raised   an exception left   *)
(***************************************************************************)
StepTokens == {TokTerm(<<"a">>), TokTerm(<<"b">>), TokAnd, TokOr, TokLP, TokRP}

StepHays == {Haystack(t, c, <<>>) : t \in {<<>>, <<"a">>}, c \in {<<>>, <<"b">>}}

InitRpn ==
    /\ pc = "rpn_for"
    /\ toks \in SeqsUpTo(StepTokens, MaxToks)
    /\ i = 1 /\ out = <<>> /\ stack = <<>>
    /\ query = <<>> /\ hay = <<>> /\ notes = <<>> /\ limit = 0
    /\ rpn = <<>> /\ res = FALSE /\ hits = <<>> /\ fts = <<>> /\ st = <<>>
    /\ nidx = 0 /\ text = <<>> /\ terms = <<>> /\ html = <<>>

\* `for t in toks`: dispatch on the kind of the next token
RpnFor ==
    /\ pc = "rpn_for"
    /\ IF i > Len(toks)
       THEN /\ pc' = "rpn_drain"
            /\ UNCHANGED <<i, out, stack>>
       ELSE LET t == toks[i] IN
            IF t.kind = TOKEN_TERM
            THEN /\ out' = Append(out, t)
                 /\ i' = i + 1
                 /\ UNCHANGED <<pc, stack>>
            ELSE IF IsOp(t)
            THEN /\ pc' = "rpn_op"
                 /\ UNCHANGED <<i, out, stack>>
            ELSE IF t.kind = TOKEN_LP
            THEN /\ stack' = Append(stack, t)
                 /\ i' = i + 1
                 /\ UNCHANGED <<pc, out>>
            ELSE IF t.kind = TOKEN_RP
            THEN /\ pc' = "rpn_rp"
                 /\ UNCHANGED <<i, out, stack>>
            ELSE /\ i' = i + 1
                 /\ UNCHANGED <<pc, out, stack>>
    /\ UNCHANGED <<query, hay, notes, limit, toks, rpn, res, hits, fts, st, nidx, text, terms, html>>

\* the pop with the popped token thrown away
MovePopDiscards(next_pc) ==
    LET p == ListPop(stack) IN
    IF p.raised
    THEN /\ pc' = "raised"
         /\ UNCHANGED <<i, out, stack>>
    ELSE /\ stack' = p.rest
         /\ pc' = next_pc
         /\ UNCHANGED <<i, out>>

\* `out.append(stack.pop())`
MovePop(next_pc) ==
    LET p == ListPop(stack) IN
    IF p.raised
    THEN /\ pc' = "raised"
         /\ UNCHANGED <<i, out, stack>>
    ELSE /\ out' = Append(out, p.val)
         /\ stack' = p.rest
         /\ pc' = next_pc
         /\ UNCHANGED i

\* the while of the operator branch, then `stack.append(t)`
RpnOp ==
    /\ pc = "rpn_op"
    /\ IF stack # <<>> /\ PopsBefore(Last(stack), toks[i])
       THEN MovePop("rpn_op")
       ELSE /\ stack' = Append(stack, toks[i])
            /\ i' = i + 1
            /\ pc' = "rpn_for"
            /\ UNCHANGED out
    /\ UNCHANGED <<query, hay, notes, limit, toks, rpn, res, hits, fts, st, nidx, text, terms, html>>

\* the RP branch that looks for an LParen on the stack first and leaves the
\* stack alone when there is none
RpnRpSkipsStray ==
    /\ pc = "rpn_rp"
    /\ IF \A k \in 1..Len(stack) : stack[k].kind # TOKEN_LP
       THEN /\ i' = i + 1
            /\ pc' = "rpn_for"
            /\ UNCHANGED <<out, stack>>
       ELSE IF Last(stack).kind # TOKEN_LP
       THEN MovePop("rpn_rp")
       ELSE /\ stack' = Front(stack)
            /\ i' = i + 1
            /\ pc' = "rpn_for"
            /\ UNCHANGED out
    /\ UNCHANGED <<query, hay, notes, limit, toks, rpn, res, hits, fts, st, nidx, text, terms, html>>

\* the while of the RP branch, then the LP is discarded, or the RP is ignored
RpnRp ==
    /\ pc = "rpn_rp"
    /\ IF stack # <<>> /\ Last(stack).kind # TOKEN_LP
       THEN MovePop("rpn_rp")
       ELSE IF stack # <<>> /\ Last(stack).kind = TOKEN_LP
       THEN LET p == ListPop(stack) IN
            /\ stack' = p.rest
            /\ i' = i + 1
            /\ pc' = IF p.raised THEN "raised" ELSE "rpn_for"
            /\ UNCHANGED out
       ELSE /\ i' = i + 1
            /\ pc' = "rpn_for"
            /\ UNCHANGED <<out, stack>>
    /\ UNCHANGED <<query, hay, notes, limit, toks, rpn, res, hits, fts, st, nidx, text, terms, html>>

\* the final `while stack`; on exit _to_rpn returns out and _eval_rpn is entered
RpnDrain ==
    /\ pc = "rpn_drain"
    /\ IF stack # <<>>
       THEN LET p == ListPop(stack) IN
            /\ stack' = p.rest
            /\ out' = IF p.val.kind \in {TOKEN_LP, TOKEN_RP} THEN out ELSE Append(out, p.val)
            /\ pc' = IF p.raised THEN "raised" ELSE "rpn_drain"
            /\ UNCHANGED <<i, rpn, hay, st>>
       ELSE /\ rpn' = out
            /\ \E h \in StepHays : hay' = h
            /\ st' = <<>>
            /\ i' = 1
            /\ pc' = "eval_for"
            /\ UNCHANGED <<out, stack>>
    /\ UNCHANGED <<query, notes, limit, toks, res, hits, fts, nidx, text, terms, html>>

\* the loop of _eval_rpn with the program used up as it is read: each
\* iteration takes the first token off rpn
EvalStepConsumes(at, ret) ==
    /\ pc = at
    /\ IF rpn # <<>>
       THEN LET r == EvalTokR(st, Head(rpn), hay) IN
            /\ st' = r.st
            /\ rpn' = Tail(rpn)
            /\ pc' = IF r.raised THEN "raised" ELSE at
            /\ UNCHANGED res
       ELSE /\ res' = StackResult(st)
            /\ pc' = ret
            /\ UNCHANGED <<rpn, st>>
    /\ UNCHANGED <<query, hay, notes, limit, toks, hits, fts, i, out, stack, nidx, text, terms, html>>

\* `for t in rpn` of _eval_rpn, then the return to the caller; `at` is the
\* position of the loop and `ret` the position after the call
EvalStep(at, ret) ==
    /\ pc = at
    /\ IF i <= Len(rpn)
       THEN LET r == EvalTokR(st, rpn[i], hay) IN
            /\ st' = r.st
            /\ i' = i + 1
            /\ pc' = IF r.raised THEN "raised" ELSE at
            /\ UNCHANGED res
       ELSE /\ res' = StackResult(st)
            /\ pc' = ret
            /\ UNCHANGED <<i, st>>
    /\ UNCHANGED <<query, hay, notes, limit, toks, rpn, hits, fts, out, stack, nidx, text, terms, html>>

\* _eval_rpn as called at the end of the step-by-step compilation
EvalFor == EvalStep("eval_for", "done")

NextRpn == RpnFor \/ RpnOp \/ RpnRp \/ RpnDrain \/ EvalFor

SpecRpn == InitRpn /\ [][NextRpn]_vars

\* the loops are sequential code: a step that can be taken is taken
SpecRpnFair == SpecRpn /\ WF_vars(NextRpn)

\* the step-by-step run computes what the operators ToRpn and EvalRpn compute
StepwiseAgrees ==
    /\ pc \in {"eval_for", "done"} => rpn = ToRpn(toks)
    /\ pc = "done" => res = EvalRpn(rpn, hay)

IsProgram(prog) ==
    \A k \in 1..Len(prog) : prog[k].kind \in {TOKEN_TERM, TOKEN_AND, TOKEN_OR}

\* C4: for every finite token stream (unbalanced parentheses, operators in
\* leading, trailing or adjacent positions, the empty stream) _to_rpn terminates
\* with an RPN program and _eval_rpn terminates with a boolean, and no step raises.
C4_NoRaiseAndTerminates ==
    /\ [](pc # "raised")
    /\ [](pc \in {"eval_for", "done"} => IsProgram(rpn))
    /\ [](pc = "done" => res \in BOOLEAN)
    /\ <>(pc = "done")

\* ") AND ( OR": an unmatched ")" and "(", adjacent operators, a trailing operator
C4_Witness ==
    /\ pc = "done"
    /\ toks = <<TokRP, TokAnd, TokLP, TokOr>>
    /\ rpn = <<TokOr, TokAnd>>
    /\ res = FALSE

(***************************************************************************)
(* Reference semantics of well-formed queries (the grammar                 *)
(*   e ::= term | e AND e | e OR e | ( e ) | e e )                         *)
(* read by precedence climbing: OR-level -> AND-level -> atom.  A result   *)
(* is [ok, val, next]: whether an expression was read from position k,     *)
(* its truth on the haystack, and the position after it.                   *)
(***************************************************************************)
RefFail == [ok |-> FALSE, val |-> FALSE, next |-> 0]

RECURSIVE RefOr(_, _, _)
RECURSIVE RefOrRest(_, _, _)
RECURSIVE RefAnd(_, _, _)
RECURSIVE RefAndRest(_, _, _)
RECURSIVE RefAtom(_, _, _)

RefAtom(ts, k, h) ==
    IF k > Len(ts) THEN RefFail
    ELSE IF ts[k].kind = TOKEN_TERM
         THEN [ok |-> TRUE, val |-> IsSubstr(ts[k].val, h), next |-> k + 1]
    ELSE IF ts[k].kind = TOKEN_LP
         THEN LET r == RefOr(ts, k + 1, h)
              IN  IF r.ok /\ r.next <= Len(ts) /\ ts[r.next].kind = TOKEN_RP
                  THEN [r EXCEPT !.next = r.next + 1]
                  ELSE RefFail
    ELSE RefFail

\* after a conjunct: "AND atom" or a juxtaposed atom continues the conjunction
RefAndRest(ts, a, h) ==
    IF a.next > Len(ts) THEN a
    ELSE LET t == ts[a.next] IN
         IF t.kind \in {TOKEN_AND, TOKEN_TERM, TOKEN_LP}
         THEN LET b == RefAtom(ts, IF t.kind = TOKEN_AND THEN a.next + 1 ELSE a.next, h)
              IN  IF b.ok
                  THEN RefAndRest(ts, [ok |-> TRUE, val |-> a.val /\ b.val, next |-> b.next], h)
                  ELSE RefFail
         ELSE a

RefAnd(ts, k, h) ==
    LET a == RefAtom(ts, k, h) IN IF a.ok THEN RefAndRest(ts, a, h) ELSE RefFail

RefOrRest(ts, a, h) ==
    IF a.next > Len(ts) THEN a
    ELSE IF ts[a.next].kind = TOKEN_OR
         THEN LET b == RefAnd(ts, a.next + 1, h)
              IN  IF b.ok
                  THEN RefOrRest(ts, [ok |-> TRUE, val |-> a.val \/ b.val, next |-> b.next], h)
                  ELSE RefFail
    ELSE a

RefOr(ts, k, h) ==
    LET a == RefAnd(ts, k, h) IN IF a.ok THEN RefOrRest(ts, a, h) ELSE RefFail

WellFormed(ts) ==
    LET r == RefOr(ts, 1, <<>>) IN r.ok /\ r.next = Len(ts) + 1

RefEval(ts, h) == RefOr(ts, 1, h).val

\* C1: for every well-formed query and every haystack, the compiled pipeline
\* (tokenize, implicit AND, shunting-yard, RPN evaluation) returns the boolean of
\* the reference semantics: a term is true iff it is a substring of the haystack,
\* juxtaposition is AND, AND binds tighter than OR, parentheses group.
C1_PipelineMatchesReference ==
    (pc = "evaluated" /\ WellFormed(Tokenize(query)))
        => res = RefEval(Tokenize(query), hay)

\* "(a or b) and c" on a haystack holding only "a" is false, by grouping
C1_Witness ==
    /\ pc = "evaluated"
    /\ query = <<"(", "a", " ", "o", "r", " ", "b", ")", " ", "A", "N", "D", " ", "c">>
    /\ hay = <<"a", "NL", "NL">>
    /\ WellFormed(Tokenize(query))
    /\ res = FALSE

(***************************************************************************)
(* Unmatched parentheses in a token list                                   *)
(***************************************************************************)
\* number of LParens still open after the first k tokens
RECURSIVE OpenDepth(_, _)
OpenDepth(ts, k) ==
    IF k = 0 THEN 0
    ELSE LET d == OpenDepth(ts, k - 1) IN
         IF ts[k].kind = TOKEN_LP THEN d + 1
         ELSE IF ts[k].kind = TOKEN_RP /\ d > 0 THEN d - 1
         ELSE d

UnmatchedRPs(ts) ==
    {k \in 1..Len(ts) : ts[k].kind = TOKEN_RP /\ OpenDepth(ts, k - 1) = 0}

RemoveAt(ts, k) == SubSeq(ts, 1, k - 1) \o SubSeq(ts, k + 1, Len(ts))

\* C3: a stray unmatched ')' is silently ignored: the result for a query equals
\* the result for the same query with that RParen removed, on every haystack.
C3_StrayRParenIgnored ==
    pc = "evaluated" =>
        \A k \in UnmatchedRPs(Tokenize(query)) :
            res = EvalRpn(ToRpn(InsertImplicitAnd(RemoveAt(Tokenize(query), k))), hay)

(***************************************************************************)
(* search_plain: claims                                                    *)
(***************************************************************************)
SingleTerm(q) ==
    LET ts == Tokenize(q) IN Len(ts) = 1 /\ ts[1].kind = TOKEN_TERM

HasQuote(q) == \E k \in 1..Len(NFKC(q)) : NFKC(q)[k] = "DQ"

OneReadableNote == Len(notes) = 1 /\ notes[1].ok

\* C2 as stated: for every haystack H and every query T that tokenizes to exactly
\* one Term, plain search matches H iff normalize(T) is a substring of normalize(H).
C2_SingleTermIffSubstring ==
    (pc = "done" /\ SingleTerm(query) /\ OneReadableNote)
        => ((hits # <<>>) <=> IsSubstr(NormText(query), NormText(NoteHay(notes[1]))))

\* C2 amended: the same, for queries T that contain no double quote.
C2_UnquotedSingleTermIffSubstring ==
    (pc = "done" /\ SingleTerm(query) /\ ~HasQuote(query) /\ OneReadableNote)
        => ((hits # <<>>) <=> IsSubstr(NormText(query), NormText(NoteHay(notes[1]))))

\* the query " b " finds the note whose content is "A b"
C2_Witness ==
    /\ pc = "done"
    /\ query = <<" ", "b", " ">>
    /\ SingleTerm(query) /\ ~HasQuote(query) /\ OneReadableNote
    /\ notes[1].content = <<"A", " ", "b">>
    /\ hits = <<1>>

\* C5: search_plain returns at most `limit` notes, for every limit >= 0.
C5_AtMostLimit == pc = "done" => Len(hits) <= limit

\* a note matches when its JSON is readable and its haystack evaluates true
Matching(k) ==
    notes[k].ok /\ EvalRpn(CompileQueryToRpn(Strip(query)), NoteHay(notes[k]))

\* C6: the result is a prefix of the matching notes in iteration order: every
\* returned note matches, returned notes keep their iteration order, and no
\* matching note that precedes a returned note is missing.
C6_HitsArePrefixOfMatches ==
    pc = "done" =>
        /\ \A j \in 1..Len(hits) : hits[j] \in 1..Len(notes) /\ Matching(hits[j])
        /\ \A j1 \in 1..Len(hits), j2 \in 1..Len(hits) : j1 < j2 => hits[j1] < hits[j2]
        /\ \A j \in 1..Len(hits) : \A k \in 1..(hits[j] - 1) :
              Matching(k) => \E j0 \in 1..Len(hits) : hits[j0] = k

\* three matching notes, cut by the limit to the first two
C6_Witness ==
    /\ pc = "done"
    /\ limit = 2
    /\ Len(notes) = 3
    /\ Matching(1) /\ Matching(2) /\ Matching(3)
    /\ hits = <<1, 2>>

NoTermToken(q) == \A k \in 1..Len(Tokenize(q)) : Tokenize(q)[k].kind # TOKEN_TERM

\* C7: search_plain returns zero hits whenever the query yields no Term token
\* (empty, whitespace only, parentheses only, empty quotes only, operators only).
C7_NoTermNoHits == (pc = "done" /\ NoTermToken(query)) => hits = <<>>

\* an operators-only query over readable notes: the program is not empty, the
\* evaluator runs on underflowing operators, and nothing is returned
C7_Witness ==
    /\ pc = "done"
    /\ query = <<"(", "O", "R">>
    /\ NoTermToken(query)
    /\ CompileQueryToRpn(Strip(query)) # <<>>
    /\ Len(notes) >= 1 /\ notes[1].ok
    /\ hits = <<>>

(***************************************************************************)
(* C19: operators in the output of _insert_implicit_and                    *)
(***************************************************************************)
ConsecutiveOps(ts) == \E k \in 1..(Len(ts) - 1) : IsOp(ts[k]) /\ IsOp(ts[k + 1])

\* C19 as stated: for every token stream the tokenizer can produce, the output
\* of the implicit-AND inserter has no two consecutive operator tokens.
C19_NoConsecutiveOps ==
    (pc # "start") => ~ConsecutiveOps(InsertImplicitAnd(toks))

\* C19, amended: for every token stream the tokenizer can produce that has no
\* two consecutive operator tokens itself, the output of the implicit-AND
\* inserter has none either.
C19_NoNewConsecutiveOps ==
    (pc # "start" /\ ~ConsecutiveOps(toks)) => ~ConsecutiveOps(InsertImplicitAnd(toks))

\* the inserter has put one And between a Term and an LParen, none after the Or
C19_Witness ==
    /\ pc = "compiled"
    /\ toks = <<TokTerm(<<"a">>), TokLP, TokOr, TokTerm(<<"b">>)>>
    /\ InsertImplicitAnd(toks) =
           <<TokTerm(<<"a">>), TokAnd, TokLP, TokOr, TokTerm(<<"b">>)>>

(***************************************************************************)
(* C20: operators of the compiled program and the evaluation stack         *)
(***************************************************************************)
\* _eval_rpn on prog reaches an And/Or with fewer than two values on st
Underflows(prog, h) ==
    \E k \in 1..Len(prog) :
        IsOp(prog[k]) /\ Len(EvalLoop(SubSeq(prog, 1, k - 1), 1, <<>>, h)) < 2

\* C20 as stated: for every query string, evaluating the program compiled by
\* _tokenize, _insert_implicit_and and _to_rpn never executes an And or Or with
\* fewer than two values on the stack.
C20_NeverUnderflows ==
    (pc = "evaluated") => ~Underflows(rpn, hay)

\* C20, amended: the same for every well-formed query (balanced parentheses,
\* every operator with an operand on each side, no empty group).
C20_WellFormedNeverUnderflows ==
    (pc = "evaluated" /\ WellFormed(toks)) => ~Underflows(rpn, hay)

\* a well-formed query with both operators and a group has been evaluated
C20_Witness ==
    /\ pc = "evaluated"
    /\ rpn = <<TokTerm(<<"a">>), TokTerm(<<"b">>), TokTerm(<<"c">>), TokOr, TokAnd>>
    /\ WellFormed(toks)
    /\ ~Underflows(rpn, hay)
    /\ res

(***************************************************************************)
(* Specification SpecScan: search_plain run step by step; the query is     *)
(* compiled once and the one program is evaluated on note after note       *)
(*   start      entry of search_plain                                      *)
(*   scan_for   top of `for m in metas`                                    *)
(*   scan_eval  in the for loop of the _eval_rpn call                      *)
(*   scan_ret   _eval_rpn has returned into the `if`                       *)
(*   done       search_plain has returned                                  *)
(***************************************************************************)
ScanNotes ==
    { Note(FALSE, <<>>, <<>>, <<>>),
      Note(TRUE, <<"a">>, <<>>, <<>>),
      Note(TRUE, <<>>, <<"b">>, <<<<"c">>>>),
      Note(TRUE, <<"A">>, <<"c">>, <<>>) }

ScanQueries ==
    { <<" ">>, <<"(">>, <<"a">>, <<"a", " ", "c">>, <<"a", " ", "o", "r", " ", "b">>,
      <<"o", "r", " ", "c">>, <<"b", " ", ")", " ", "c">> }

InitScan ==
    /\ pc = "start"
    /\ query \in ScanQueries
    /\ notes \in SeqsUpTo(ScanNotes, MaxNotes)
    /\ limit \in 0..MaxLimit
    /\ hay = <<>> /\ toks = <<>> /\ rpn = <<>> /\ res = FALSE /\ hits = <<>> /\ fts = <<>>
    /\ i = 0 /\ out = <<>> /\ stack = <<>> /\ st = <<>>
    /\ nidx = 0 /\ text = <<>> /\ terms = <<>> /\ html = <<>>

\* q = query.strip(); rpn = _compile_query_to_rpn(q); the two early returns
ScanStart ==
    /\ pc = "start"
    /\ LET q == Strip(query)
           prog == IF q = <<>> THEN <<>> ELSE CompileQueryToRpn(q)
       IN  /\ rpn' = prog
           /\ hits' = <<>>
           /\ IF prog = <<>>
              THEN pc' = "done" /\ UNCHANGED nidx
              ELSE pc' = "scan_for" /\ nidx' = 1
    /\ UNCHANGED <<query, hay, notes, limit, toks, res, fts, i, out, stack, st, text, terms, html>>

\* `for m in metas`: the end of the loop, a note that cannot be read, or the
\* haystack of the note and the call of _eval_rpn (st = [])
ScanFor ==
    /\ pc = "scan_for"
    /\ IF nidx > Len(notes)
       THEN pc' = "done" /\ UNCHANGED <<nidx, hay, st, i>>
       ELSE IF ~notes[nidx].ok
       THEN nidx' = nidx + 1 /\ UNCHANGED <<pc, hay, st, i>>
       ELSE /\ hay' = NoteHay(notes[nidx])
            /\ st' = <<>>
            /\ i' = 1
            /\ pc' = "scan_eval"
            /\ UNCHANGED nidx
    /\ UNCHANGED <<query, notes, limit, toks, rpn, res, hits, fts, out, stack, text, terms, html>>

\* the _eval_rpn call of the loop body
ScanEval == EvalStep("scan_eval", "scan_ret")

\* `if _eval_rpn(rpn, hay): hits.append(m)`, and the break at the limit
ScanRet ==
    /\ pc = "scan_ret"
    /\ IF res
       THEN LET h2 == AddHit(hits, nidx) IN
            /\ hits' = h2
            /\ IF Len(h2) >= limit
               THEN pc' = "done" /\ UNCHANGED nidx
               ELSE pc' = "scan_for" /\ nidx' = nidx + 1
       ELSE /\ pc' = "scan_for"
            /\ nidx' = nidx + 1
            /\ UNCHANGED hits
    /\ UNCHANGED <<query, hay, notes, limit, toks, rpn, res, fts, i, out, stack, st, text, terms, html>>

NextScan == ScanStart \/ ScanFor \/ ScanEval \/ ScanRet

SpecScan == InitScan /\ [][NextScan]_vars

\* the step-by-step run returns what the operator SearchPlainHits computes
ScanAgrees == (pc = "done") => hits = SearchPlainHits(query, notes, limit)

\* C18: compiling and evaluating have no side effect: the program compiled
\* once is never modified while it is evaluated on one haystack after the
\* other (compiling the query again gives the very program in use), and each
\* haystack gets the result that compiling the query afresh and evaluating it
\* on that haystack alone gives, whatever was evaluated before.
C18_ReuseEqualsRecompile ==
    /\ pc \in {"scan_for", "scan_eval", "scan_ret"} => rpn = CompileQueryToRpn(Strip(query))
    /\ pc = "scan_ret" => res = EvalRpn(CompileQueryToRpn(Strip(query)), hay)

\* the program has matched the third note after a match and a miss before it
C18_Witness ==
    /\ pc = "scan_ret"
    /\ nidx = 3
    /\ notes[2].ok
    /\ hits = <<1>>
    /\ res

(***************************************************************************)
(* highlight.py: _extract_terms_logical                                    *)
(* More characters, by mnemonic: "FWLSB" "FWRSB" full-width square         *)
(* brackets, "LLB" "RLB" lenticular brackets, "FWSEMI" "FWCOMMA" "FWSTOP"  *)
(* "FWCOLON" "FWSLASH" "FWBAR" full-width ; , . : / |, "IDCOMMA" "IDSTOP"  *)
(* ideographic comma and full stop, "BSL" backslash, "LDQ" "RDQ" "RSQ"     *)
(* curly quotes, "SQ" apostrophe, "FWMINUS" full-width hyphen-minus        *)
(***************************************************************************)
OP_WORDS ==
    {<<"a", "n", "d">>, <<"o", "r">>, <<"n", "o", "t">>,
     <<"A", "N", "D">>, <<"O", "R">>, <<"N", "O", "T">>,
     <<"&", "&">>, <<"|", "|">>}

PARENS == {"(", ")", "FWLP", "FWRP", "FWLSB", "FWRSB", "LLB", "RLB", "[", "]", "{", "}"}

SEP_PATTERN ==
    {";", "FWSEMI", ",", "FWCOMMA", "IDCOMMA", "IDSTOP", "FWSTOP", ".", ":", "FWCOLON",
     "/", "FWSLASH", "BSL", "|", "FWBAR"}

\* the characters of steps 3 and 4: & | and the five quote characters
AmpBarQuotes == {"&", "|", "DQ", "LDQ", "RDQ", "SQ", "RSQ"}

\* steps 1 to 4: each of those characters becomes one space
LogicalSpaced(q) ==
    [k \in 1..Len(q) |->
        IF q[k] \in PARENS \cup SEP_PATTERN \cup AmpBarQuotes THEN " " ELSE q[k]]

\* raw_tokens
RawTokens(qry) == SplitWs(LogicalSpaced(Strip(qry)), 1, <<>>)

\* [\W_]: neither a letter nor a digit
IsNonWord(c) == ~IsAlnum(c)

RECURSIVE LStripNonWord(_)
LStripNonWord(s) == IF s # <<>> /\ IsNonWord(Head(s)) THEN LStripNonWord(Tail(s)) ELSE s

RECURSIVE RStripNonWord(_)
RStripNonWord(s) == IF s # <<>> /\ IsNonWord(Last(s)) THEN RStripNonWord(Front(s)) ELSE s

\* re.sub(r"^[\W_]+|[\W_]+$", "", tok)
Cleaned(tok) == RStripNonWord(LStripNonWord(tok))

\* re.fullmatch(r"[A-Za-z0-9]", cleaned)
IsOneAsciiAlnum(cleaned) == Len(cleaned) = 1 /\ cleaned[1] \in AsciiAlnumChars

\* the loop with the skip_next flag never set
RECURSIVE LogicalLoopNoSkip(_, _, _, _)
LogicalLoopNoSkip(raw, k, skip_next, tokens) ==
    IF k > Len(raw) THEN tokens
    ELSE LET tok == raw[k]
             cleaned == Cleaned(tok)
         IN  IF Lower(tok) \in OP_WORDS \/ tok[1] = "-" \/ cleaned = <<>> \/ IsOneAsciiAlnum(cleaned)
             THEN LogicalLoopNoSkip(raw, k + 1, FALSE, tokens)
             ELSE LogicalLoopNoSkip(raw, k + 1, FALSE, Append(tokens, [at |-> k, term |-> cleaned]))

\* `for tok in raw_tokens`, from index k with the locals skip_next and tokens;
\* each appended term is kept with the index of the raw token it came from
RECURSIVE LogicalLoop(_, _, _, _)
LogicalLoop(raw, k, skip_next, tokens) ==
    IF k > Len(raw) THEN tokens
    ELSE LET tok == raw[k]
             low == Lower(tok)
             cleaned == Cleaned(tok)
         IN  IF skip_next THEN LogicalLoop(raw, k + 1, FALSE, tokens)
             ELSE IF low \in OP_WORDS
                  THEN LogicalLoop(raw, k + 1, low = <<"n", "o", "t">>, tokens)
             ELSE IF tok[1] = "-" /\ Len(tok) > 1 THEN LogicalLoop(raw, k + 1, FALSE, tokens)
             ELSE IF tok = <<"-">> THEN LogicalLoop(raw, k + 1, TRUE, tokens)
             ELSE IF cleaned = <<>> THEN LogicalLoop(raw, k + 1, FALSE, tokens)
             ELSE IF IsOneAsciiAlnum(cleaned) THEN LogicalLoop(raw, k + 1, FALSE, tokens)
             ELSE LogicalLoop(raw, k + 1, FALSE, Append(tokens, [at |-> k, term |-> cleaned]))

\* the appended terms with their raw-token indexes
LogicalKept(qry) == LogicalLoop(RawTokens(qry), 1, FALSE, <<>>)

\* the order-preserving removal of duplicates
RECURSIVE Dedupe(_, _)
Dedupe(ts, uniq) ==
    IF ts = <<>> THEN uniq
    ELSE IF \E k \in 1..Len(uniq) : uniq[k] = Head(ts)
         THEN Dedupe(Tail(ts), uniq)
         ELSE Dedupe(Tail(ts), Append(uniq, Head(ts)))

ExtractTermsLogical(qry) ==
    LET kept == LogicalKept(qry)
    IN  Dedupe([k \in 1..Len(kept) |-> kept[k].term], <<>>)

(***************************************************************************)
(* highlight.py: _extract_terms_simple                                     *)
(***************************************************************************)
\* re.findall(r'"([^"]+)"', q): the non-overlapping matches from index k
RECURSIVE Phrases(_, _)
Phrases(q, k) ==
    IF k > Len(q) THEN <<>>
    ELSE IF q[k] # "DQ" THEN Phrases(q, k + 1)
    ELSE LET j == QuoteEnd(q, k + 1) IN
         IF j <= Len(q) /\ j > k + 1
         THEN <<SubSeq(q, k + 1, j - 1)>> \o Phrases(q, j + 1)
         ELSE Phrases(q, k + 1)

\* re.sub(r'"[^"]+"', " ", q)
RECURSIVE WithoutPhrases(_, _)
WithoutPhrases(q, k) ==
    IF k > Len(q) THEN <<>>
    ELSE IF q[k] # "DQ" THEN <<q[k]>> \o WithoutPhrases(q, k + 1)
    ELSE LET j == QuoteEnd(q, k + 1) IN
         IF j <= Len(q) /\ j > k + 1
         THEN <<" ">> \o WithoutPhrases(q, j + 1)
         ELSE <<q[k]>> \o WithoutPhrases(q, k + 1)

\* re.split(r"[\s,]+", s) without its empty strings
RECURSIVE SplitWsComma(_, _, _)
SplitWsComma(s, k, cur) ==
    IF k > Len(s) THEN (IF cur = <<>> THEN <<>> ELSE <<cur>>)
    ELSE IF IsSpace(s[k]) \/ s[k] = ","
         THEN (IF cur = <<>> THEN <<>> ELSE <<cur>>) \o SplitWsComma(s, k + 1, <<>>)
         ELSE SplitWsComma(s, k + 1, Append(cur, s[k]))

\* the longest term kept (`1 <= len(t) <= 50`)
MaxTermLen == 50

RECURSIVE KeepNonEmpty(_)
KeepNonEmpty(ss) ==
    IF ss = <<>> THEN <<>>
    ELSE (IF Strip(Head(ss)) # <<>> THEN <<Strip(Head(ss))>> ELSE <<>>) \o KeepNonEmpty(Tail(ss))

RECURSIVE KeepShort(_)
KeepShort(ss) ==
    IF ss = <<>> THEN <<>>
    ELSE (IF 1 <= Len(Head(ss)) /\ Len(Head(ss)) <= MaxTermLen THEN <<Head(ss)>> ELSE <<>>)
             \o KeepShort(Tail(ss))

ExtractTermsSimple(qry) ==
    LET q == Strip(qry) IN
    IF q = <<>> THEN <<>>
    ELSE LET phrases == Phrases(q, 1)
             words == SplitWsComma(Strip(WithoutPhrases(q, 1)), 1, <<>>)
         IN  KeepShort(KeepNonEmpty(phrases) \o KeepNonEmpty(words))

(***************************************************************************)
(* highlight.py: highlight_text_html                                       *)
(* The returned string is a sequence of characters like every other text;  *)
(* the tags are spelled out character by character.                        *)
(***************************************************************************)
\* html.escape(s) of one character
HtmlEscapeCh(c) ==
    CASE c = "&" -> <<"&", "a", "m", "p", ";">>
      [] c = "<" -> <<"&", "l", "t", ";">>
      [] c = ">" -> <<"&", "g", "t", ";">>
      [] c = "DQ" -> <<"&", "q", "u", "o", "t", ";">>
      [] c = "SQ" -> <<"&", "#", "x", "2", "7", ";">>
      [] OTHER -> <<c>>

HtmlEscape(s) == Concat([k \in 1..Len(s) |-> HtmlEscapeCh(s[k])])

MarkOpen == <<"<", "m", "a", "r", "k", ">">>

MarkClose == <<"<", "/", "m", "a", "r", "k", ">">>

BrTag == <<"<", "b", "r", ">">>

\* <div style="white-space:pre-wrap; line-height:1.5;">
DivOpen ==
    <<"<", "d", "i", "v", " ", "s", "t", "y", "l", "e", "=", "DQ",
      "w", "h", "i", "t", "e", "-", "s", "p", "a", "c", "e", ":",
      "p", "r", "e", "-", "w", "r", "a", "p", ";", " ",
      "l", "i", "n", "e", "-", "h", "e", "i", "g", "h", "t", ":", "1", ".", "5", ";",
      "DQ", ">">>

DivClose == <<"<", "/", "d", "i", "v", ">">>

\* _nl_to_br
NlToBr(x) == Concat([k \in 1..Len(x) |-> IF x[k] = "NL" THEN BrTag ELSE <<x[k]>>])

\* terms = _extract_terms_logical(q), with the fallback to _extract_terms_simple
FoundTerms(q) ==
    LET l == ExtractTermsLogical(q) IN IF l # <<>> THEN l ELSE ExtractTermsSimple(q)

\* the terms in the order found, duplicates removed, with no sorting by length
FoundOrder(found) == {Dedupe(found, <<>>)}

\* sorted(set(terms), key=len, reverse=True): the set of the terms in an order
\* of non-increasing length; terms of one length come in the order in which
\* the set iterates, which is any order
SortedOrders(found) ==
    LET S == {found[k] : k \in 1..Len(found)}
        n == Cardinality(S)
    IN  {ts \in [1..n -> S] :
            /\ \A j, k \in 1..n : j # k => ts[j] # ts[k]
            /\ \A k \in 1..(n - 1) : Len(ts[k]) >= Len(ts[k + 1])}

\* the alternative re.escape(t) matches at position p of esc (re.IGNORECASE)
MatchesAt(t, esc, p) ==
    /\ p + Len(t) - 1 <= Len(esc)
    /\ Lower(SubSeq(esc, p, p + Len(t) - 1)) = Lower(t)

\* the first alternative of the pattern that matches at p, 0 if none does
FirstMatch(ts, esc, p) ==
    IF \E j \in 1..Len(ts) : MatchesAt(ts[j], esc, p)
    THEN CHOOSE j \in 1..Len(ts) :
            /\ MatchesAt(ts[j], esc, p)
            /\ \A k \in 1..(j - 1) : ~MatchesAt(ts[k], esc, p)
    ELSE 0

\* the matched text given back in lower case
Group0Lower(esc, p, n) == Lower(SubSeq(esc, p, p + n - 1))

\* m.group(0): the n characters of esc matched at p
Group0(esc, p, n) == SubSeq(esc, p, p + n - 1)

\* pat.sub(_repl, esc) from position p: the leftmost matches, none overlapping
RECURSIVE SubMarks(_, _, _)
SubMarks(esc, p, ts) ==
    IF p > Len(esc) THEN <<>>
    ELSE LET j == FirstMatch(ts, esc, p) IN
         IF j = 0 THEN <<esc[p]>> \o SubMarks(esc, p + 1, ts)
         ELSE MarkOpen \o Group0(esc, p, Len(ts[j])) \o MarkClose
                  \o SubMarks(esc, p + Len(ts[j]), ts)

\* re.sub with the empty pattern, which matches before every character and at
\* the end
EmptyMarks(esc) ==
    Concat([k \in 1..Len(esc) |-> MarkOpen \o MarkClose \o <<esc[k]>>]) \o MarkOpen \o MarkClose

\* the string returned with the early return for an empty term list left out
HighlightHtmlNoGuard(s, ts) ==
    LET esc == HtmlEscape(s)
    IN  DivOpen \o NlToBr(IF ts = <<>> THEN EmptyMarks(esc) ELSE SubMarks(esc, 1, ts)) \o DivClose

\* the string returned when the pattern is built from the term list ts
HighlightHtml(s, ts) ==
    LET esc == HtmlEscape(s)
    IN  DivOpen \o NlToBr(IF ts = <<>> THEN esc ELSE SubMarks(esc, 1, ts)) \o DivClose

(***************************************************************************)
(* Specification SpecExt: a caller extracts the terms of one query with    *)
(* _extract_terms_logical                                                  *)
(***************************************************************************)
MaxExtWords == 3

ExtWords ==
    { <<"a", "b">>, <<"c", "d">>, <<"a">>, <<"KANJI">>, <<"N", "o", "t">>, <<"O", "R">>,
      <<"-">>, <<"-", "a", "b">>, <<"c", "d", ",">>, <<"FWO", "FWR">>, <<"FWMINUS", "c", "d">> }

ExtQueries == {JoinWith(ws, <<" ">>) : ws \in SeqsUpTo(ExtWords, MaxExtWords)}

InitExt ==
    /\ pc = "start"
    /\ query \in ExtQueries
    /\ Idle

DoExtractLogical ==
    /\ pc = "start"
    /\ terms' = ExtractTermsLogical(query)
    /\ pc' = "extracted"
    /\ UNCHANGED <<query, hay, notes, limit, toks, rpn, res, hits, fts, i, out, stack, st, nidx, text, html>>

NextExt == DoExtractLogical

SpecExt == InitExt /\ [][NextExt]_vars

(***************************************************************************)
(* Specification SpecHl: a caller highlights one text for one query        *)
(***************************************************************************)
MaxHlWords == 2

MaxTextLex == 3

HlWords ==
    { <<"a", "b">>, <<"a", "b", "c">>, <<"a">>, <<"O", "r">>, <<"l", "t">>, <<"IDSP">> }

HlQueries == {JoinWith(ws, <<" ">>) : ws \in SeqsUpTo(HlWords, MaxHlWords)}

HlTextLex == {<<"a", "B">>, <<"c">>, <<"O", "R">>, <<"<">>, <<"NL">>}

HlTexts == {Concat(ls) : ls \in SeqsUpTo(HlTextLex, MaxTextLex)}

InitHl ==
    /\ pc = "start"
    /\ query \in HlQueries
    /\ text \in HlTexts
    /\ hay = <<>> /\ notes = <<>> /\ limit = 0
    /\ toks = <<>> /\ rpn = <<>> /\ res = FALSE /\ hits = <<>> /\ fts = <<>>
    /\ i = 0 /\ out = <<>> /\ stack = <<>> /\ st = <<>>
    /\ nidx = 0 /\ terms = <<>> /\ html = <<>>

\* highlight_text_html(text, query); terms is the list the pattern is built from
DoHighlight ==
    /\ pc = "start"
    /\ LET found == FoundTerms(Strip(query))
       IN  \E ts \in SortedOrders(found) :
               /\ terms' = ts
               /\ html' = HighlightHtml(text, ts)
    /\ pc' = "highlighted"
    /\ UNCHANGED <<query, hay, notes, limit, toks, rpn, res, hits, fts, i, out, stack, st, nidx, text>>

NextHl == DoHighlight

SpecHl == InitHl /\ [][NextHl]_vars

(***************************************************************************)
(* Claims on highlight_text_html                                           *)
(***************************************************************************)
\* the string tag starts at index k of x
PrefixAt(x, k, tag) == k + Len(tag) - 1 <= Len(x) /\ SubSeq(x, k, k + Len(tag) - 1) = tag

CountTag(x, tag) == Cardinality({k \in 1..Len(x) : PrefixAt(x, k, tag)})

\* h is the fixed wrapper around something
IsWrapped(h) ==
    /\ Len(h) >= Len(DivOpen) + Len(DivClose)
    /\ PrefixAt(h, 1, DivOpen)
    /\ PrefixAt(h, Len(h) - Len(DivClose) + 1, DivClose)

\* what the wrapper is around
Inner(h) == SubSeq(h, Len(DivOpen) + 1, Len(h) - Len(DivClose))

\* x with every <mark> and </mark> deleted and every <br> turned into a newline
RECURSIVE Unmark(_, _)
Unmark(x, k) ==
    IF k > Len(x) THEN <<>>
    ELSE IF PrefixAt(x, k, MarkOpen) THEN Unmark(x, k + Len(MarkOpen))
    ELSE IF PrefixAt(x, k, MarkClose) THEN Unmark(x, k + Len(MarkClose))
    ELSE IF PrefixAt(x, k, BrTag) THEN <<"NL">> \o Unmark(x, k + Len(BrTag))
    ELSE <<x[k]>> \o Unmark(x, k + 1)

OperatorKeywords == {<<"a", "n", "d">>, <<"o", "r">>, <<"n", "o", "t">>}

\* C12: highlight never wraps an operator keyword of the query (AND, OR, NOT in
\* any letter case) in <mark>: no operator keyword is in the term list used for
\* marking.
C12_NoOperatorMarked ==
    (pc = "highlighted") => \A k \in 1..Len(terms) : Lower(terms[k]) \notin OperatorKeywords

\* C13: the markup is additive: the returned string is the fixed wrapper around
\* a body from which deleting every <mark> and </mark> and turning every <br>
\* back into a newline gives exactly the HTML-escaped text.
C13_MarkupAdditive ==
    (pc = "highlighted") =>
        /\ IsWrapped(html)
        /\ Unmark(Inner(html), 1) = HtmlEscape(text)

\* a match in another letter case before an escaped character and a newline
C13_Witness ==
    /\ pc = "highlighted"
    /\ query = <<"a", "b">>
    /\ text = <<"a", "B", "<", "NL">>
    /\ html = DivOpen \o MarkOpen \o <<"a", "B">> \o MarkClose
                  \o <<"&", "l", "t", ";">> \o BrTag \o DivClose

\* the first </mark> at or after index k of x, Len(x) + 1 if there is none
RECURSIVE CloseAt(_, _)
CloseAt(x, k) ==
    IF k > Len(x) THEN k ELSE IF PrefixAt(x, k, MarkClose) THEN k ELSE CloseAt(x, k + 1)

\* the <mark> spans of the body x from index k: where each starts in the
\* escaped text (p is the position of the character at k), how many of its
\* characters it wraps, and whether it is closed with no <mark> inside
RECURSIVE MarkSpans(_, _, _)
MarkSpans(x, k, p) ==
    IF k > Len(x) THEN <<>>
    ELSE IF PrefixAt(x, k, MarkOpen)
         THEN LET c == CloseAt(x, k + Len(MarkOpen))
                  inside == SubSeq(x, k + Len(MarkOpen), c - 1)
                  n == Len(Unmark(inside, 1))
              IN  <<[pos |-> p, len |-> n,
                     flat |-> c <= Len(x) /\ CountTag(inside, MarkOpen) = 0]>>
                      \o MarkSpans(x, c + Len(MarkClose), p + n)
    ELSE IF PrefixAt(x, k, BrTag) THEN MarkSpans(x, k + Len(BrTag), p + 1)
    ELSE MarkSpans(x, k + 1, p + 1)

\* C14: the <mark> spans never overlap or nest (each <mark> is closed before
\* the next one opens), and where several terms match at the start position of
\* a span, the span wraps the longest of them.
C14_LongestNoNesting ==
    (pc = "highlighted") =>
        LET body == Inner(html)
            esc == HtmlEscape(text)
            spans == MarkSpans(body, 1, 1)
        IN  /\ CountTag(body, MarkOpen) = Len(spans)
            /\ CountTag(body, MarkClose) = Len(spans)
            /\ \A j \in 1..Len(spans) :
                   /\ spans[j].flat
                   /\ \E k \in 1..Len(terms) :
                          Len(terms[k]) = spans[j].len /\ MatchesAt(terms[k], esc, spans[j].pos)
                   /\ \A k \in 1..Len(terms) :
                          MatchesAt(terms[k], esc, spans[j].pos) => Len(terms[k]) <= spans[j].len

\* two terms, one a prefix of the other, both matching at the start of the text
C14_Witness ==
    /\ pc = "highlighted"
    /\ query = <<"a", "b", " ", "a", "b", "c">>
    /\ text = <<"a", "B", "c", "a", "B">>
    /\ html = DivOpen \o MarkOpen \o <<"a", "B", "c">> \o MarkClose
                  \o MarkOpen \o <<"a", "B">> \o MarkClose \o DivClose

IsNotWord(tok) == Lower(tok) = <<"n", "o", "t">>

\* the raw-token indexes that contributed a term
KeptAt(qry) == LET kept == LogicalKept(qry) IN {kept[j].at : j \in 1..Len(kept)}

\* C16 as stated: a token that starts with "-", and the token that immediately
\* follows a NOT token (any case) or a bare "-" token, contributes no term to
\* the output.
C16_NegationExcludes ==
    (pc = "extracted") =>
        LET raw == RawTokens(query) IN
        \A k \in 1..Len(raw) :
            (\/ raw[k][1] = "-"
             \/ (k > 1 /\ (IsNotWord(raw[k - 1]) \/ raw[k - 1] = <<"-">>)))
                => k \notin KeptAt(query)

\* the token at k is dropped because the token before it is a NOT or a bare
\* "-" that is not dropped in this way itself
RECURSIVE FollowsNegation(_, _)
FollowsNegation(raw, k) ==
    /\ k > 1
    /\ IsNotWord(raw[k - 1]) \/ raw[k - 1] = <<"-">>
    /\ ~FollowsNegation(raw, k - 1)

\* C16, amended: a token that starts with "-", and the token that immediately
\* follows a NOT token (any case) or a bare "-" token that is not itself the
\* token following such a token, contributes no term to the output.
C16_NegationExcludesOnce ==
    (pc = "extracted") =>
        LET raw == RawTokens(query) IN
        \A k \in 1..Len(raw) :
            (raw[k][1] = "-" \/ FollowsNegation(raw, k)) => k \notin KeptAt(query)

\* the two examples of the claim, with the words cd and ab
C16_Witness ==
    /\ pc = "extracted"
    /\ query \in {<<"c", "d", " ", "-", "a", "b">>,
                  <<"c", "d", " ", "N", "o", "t", " ", "a", "b">>}
    /\ terms = <<<<"c", "d">>>>

\* C17: the logical extractor NFKC-normalizes the query first:
\* extract_terms_logical(q) = extract_terms_logical(NFKC(q)), so the full-width
\* forms of the operators and of the minus sign act like the ASCII ones.
C17_NfkcFirst ==
    (pc = "extracted") => terms = ExtractTermsLogical(NFKC(query))

(***************************************************************************)
(* C21: operators that find fewer than two values                          *)
(***************************************************************************)
\* the stack of _eval_rpn before token k of prog
StackBefore(prog, k, h) == EvalLoop(SubSeq(prog, 1, k - 1), 1, <<>>, h)

\* C21: an And/Or that finds fewer than two values on the stack takes false for
\* each missing operand and pushes exactly one result (And pushes false, Or
\* pushes the one operand, or false if there is none); so the query "T AND"
\* matches no haystack and "T OR" matches exactly the haystacks containing T.
C21_UnderflowIsFalse ==
    (pc = "evaluated") =>
        /\ \A k \in 1..Len(rpn) :
               LET before == StackBefore(rpn, k, hay)
                   after == StackBefore(rpn, k + 1, hay)
               IN  (IsOp(rpn[k]) /\ Len(before) < 2) =>
                       after = <<IF rpn[k].kind = TOKEN_AND THEN FALSE
                                 ELSE IF before = <<>> THEN FALSE ELSE before[1]>>
        /\ \A t \in Terms :
               /\ query = t \o <<" ">> \o WAnd => ~res
               /\ query = t \o <<" ">> \o WOr => (res <=> IsSubstr(t, hay))

\* the query "a or" has matched a haystack that holds a
C21_Witness ==
    /\ pc = "evaluated"
    /\ query = <<"a", " ", "o", "r">>
    /\ rpn = <<TokTerm(<<"a">>), TokOr>>
    /\ IsSubstr(<<"a">>, hay)
    /\ res

(***************************************************************************)
(* C22: the tokens of the program returned by _to_rpn                      *)
(***************************************************************************)
IsTermTok(t) == t.kind = TOKEN_TERM

CountKind(ts, kind) == Cardinality({k \in 1..Len(ts) : ts[k].kind = kind})

\* C22: for every token stream, the program returned by _to_rpn holds only
\* Term/And/Or tokens; its Terms are the Terms of the input in the same order,
\* and it has each And and each Or of the input exactly once, whatever the
\* parentheses.
C22_RpnRearrangesInput ==
    (pc \in {"eval_for", "done"}) =>
        /\ \A k \in 1..Len(rpn) : rpn[k].kind \in {TOKEN_TERM, TOKEN_AND, TOKEN_OR}
        /\ SelectSeq(rpn, IsTermTok) = SelectSeq(toks, IsTermTok)
        /\ CountKind(rpn, TOKEN_AND) = CountKind(toks, TOKEN_AND)
        /\ CountKind(rpn, TOKEN_OR) = CountKind(toks, TOKEN_OR)

\* a stream with an unmatched RParen has been compiled
C22_Witness ==
    /\ pc = "done"
    /\ toks = <<TokTerm(<<"a">>), TokOr, TokTerm(<<"b">>), TokRP>>
    /\ rpn = <<TokTerm(<<"a">>), TokTerm(<<"b">>), TokOr>>

(***************************************************************************)
(* C23: what _insert_implicit_and inserts                                  *)
(***************************************************************************)
\* a Term or RParen immediately followed by a Term or LParen
ValuePair(x, y) == x.kind \in {TOKEN_TERM, TOKEN_RP} /\ y.kind \in {TOKEN_TERM, TOKEN_LP}

\* ts with an And written between the two tokens of every such pair
WithAnds(ts) ==
    Concat([k \in 1..Len(ts) |->
               IF k > 1 /\ ValuePair(ts[k - 1], ts[k]) THEN <<TokAnd, ts[k]>> ELSE <<ts[k]>>])

\* C23: _insert_implicit_and only inserts And tokens, one exactly at each
\* position where a Term or RParen is immediately followed by a Term or LParen
\* (so deleting them gives the input back); its output has no such pair left,
\* and applying it twice gives what applying it once gives.
C23_InsertsExactlyAtValuePairs ==
    (pc # "start") =>
        LET ins == InsertImplicitAnd(toks) IN
        /\ ins = WithAnds(toks)
        /\ \A k \in 1..(Len(ins) - 1) : ~ValuePair(ins[k], ins[k + 1])
        /\ InsertImplicitAnd(ins) = ins

\* an And after the RParen and one between the Terms, none after the LParen
C23_Witness ==
    /\ pc = "compiled"
    /\ toks = <<TokRP, TokLP, TokTerm(<<"a">>), TokTerm(<<"b">>)>>
    /\ InsertImplicitAnd(toks) =
           <<TokRP, TokAnd, TokLP, TokTerm(<<"a">>), TokAnd, TokTerm(<<"b">>)>>

(***************************************************************************)
(* C24: implicit and explicit AND                                          *)
(***************************************************************************)
\* the words of a query that tokenizes to ts (Terms without whitespace,
\* parentheses, quotes or keywords), separated by single spaces
Unparse(ts) == JoinWith([k \in 1..Len(ts) |-> ts[k].val], <<" ">>)

\* C24: the query with AND written out between every two adjacent values
\* ("x y", "x (y)", "(x) y", "(x)(y)") compiles to the same program as the
\* query itself.
C24_ExplicitAndSameRpn ==
    (pc # "start") =>
        /\ Tokenize(Unparse(toks)) = toks
        /\ CompileQueryToRpn(Unparse(WithAnds(toks))) = rpn

\* "a ( b )" and "a AND ( b )" both compile to a b And
C24_Witness ==
    /\ pc = "compiled"
    /\ query = <<"a", " ", "(", " ", "b", " ", ")">>
    /\ Unparse(WithAnds(toks)) = <<"a", " ", "A", "N", "D", " ", "(", " ", "b", " ", ")">>
    /\ rpn = <<TokTerm(<<"a">>), TokTerm(<<"b">>), TokAnd>>

(***************************************************************************)
(* C25: the evaluation stack on well-formed queries                        *)
(***************************************************************************)
\* C25: for every well-formed query, no operator of the compiled program finds
\* fewer than two values (no pop meets an empty stack), and the evaluation ends
\* with exactly one value on the stack, which is the result.
C25_WellFormedOneValue ==
    (pc = "evaluated" /\ WellFormed(toks)) =>
        LET final == EvalLoop(rpn, 1, <<>>, hay) IN
        /\ \A k \in 1..Len(rpn) : IsOp(rpn[k]) => Len(StackBefore(rpn, k, hay)) >= 2
        /\ Len(final) = 1
        /\ res = final[1]

\* "a or b AND c" has been evaluated to true
C25_Witness ==
    /\ pc = "evaluated"
    /\ query = <<"a", " ", "o", "r", " ", "b", " ", "A", "N", "D", " ", "c">>
    /\ WellFormed(toks)
    /\ rpn = <<TokTerm(<<"a">>), TokTerm(<<"b">>), TokTerm(<<"c">>), TokAnd, TokOr>>
    /\ EvalLoop(rpn, 1, <<>>, hay) = <<TRUE>>
    /\ res

(***************************************************************************)
(* C26: unbalanced parentheses in _to_rpn                                  *)
(***************************************************************************)
\* n copies of the token t
Copies(t, n) == [k \in 1..n |-> t]

\* ts with one LParen in front for each unmatched RParen and one RParen at the
\* end for each unmatched LParen
Balanced(ts) ==
    Copies(TokLP, Cardinality(UnmatchedRPs(ts))) \o ts \o Copies(TokRP, OpenDepth(ts, Len(ts)))

KeepsTerms(prog, h, h2) ==
    \A k \in 1..Len(prog) :
        (IsTermTok(prog[k]) /\ TermMatches(prog[k], h)) => TermMatches(prog[k], h2)

\* C27: for every program the compiler can produce, malformed ones included,
\* if _eval_rpn is true for a haystack then it is true for every haystack in
\* which each Term found before is still found.
C27_MonotoneInHaystack ==
    (pc = "evaluated" /\ res) =>
        \A h2 \in HayTexts : KeepsTerms(rpn, hay, h2) => EvalRpn(rpn, h2)

\* "a or b" is true on a haystack with a and without b, and larger ones exist
C27_Witness ==
    /\ pc = "evaluated"
    /\ res
    /\ rpn = <<TokTerm(<<"a">>), TokTerm(<<"b">>), TokOr>>
    /\ ~IsSubstr(<<"b">>, hay)
    /\ \E h2 \in HayTexts : h2 # hay /\ KeepsTerms(rpn, hay, h2) /\ IsSubstr(<<"b">>, h2)


(***************************************************************************)
(* search_plain: fields of the haystack                                    *)
(***************************************************************************)
HasNewline(s) == \E k \in 1..Len(s) : s[k] = "NL"

InAField(t, n) ==
    \/ IsSubstr(t, NormText(n.title))
    \/ IsSubstr(t, NormText(n.content))
    \/ IsSubstr(t, NormText(TagsStr(n.tags)))

\* C28: a Term never matches across a field boundary: no Term of the query holds a
\* newline, the normalized fields hold none, and a Term is found in the haystack
\* of a note iff it is a substring of the normalized title, content or tag string;
\* a one-Term query returns a lone readable note iff the Term is in one of its fields.
C28_NoMatchAcrossFields ==
    pc = "done" =>
        LET ts == Tokenize(query) IN
        /\ \A k \in 1..Len(ts) : \A m \in 1..Len(notes) :
               (ts[k].kind = TOKEN_TERM /\ notes[m].ok) =>
                   /\ ~HasNewline(ts[k].val)
                   /\ (IsSubstr(ts[k].val, NoteHay(notes[m])) <=> InAField(ts[k].val, notes[m]))
        /\ (SingleTerm(query) /\ OneReadableNote) =>
               ((hits = <<1>>) <=> InAField(ts[1].val, notes[1]))

\* the phrase "a b" does not find the note titled "a" whose content is "b"
C28_Witness ==
    /\ pc = "done"
    /\ query = <<"DQ", "a", "NL", "b", "DQ">>
    /\ Tokenize(query) = <<TokTerm(<<"a", " ", "b">>)>>
    /\ notes = <<Note(TRUE, <<"a">>, <<"b">>, <<>>)>>
    /\ hits = <<>>


(***************************************************************************)
(* _prefixify_query: a second pass                                         *)
(***************************************************************************)
\* C29: _prefixify_query is idempotent: compiling its own output returns that
\* output (no token gets a second "*", quoted and unterminated-quote spans stay
\* as they are).
C29_PrefixifyIdempotent ==
    pc = "prefixified" => PrefixifyQuery(fts) = fts

\* a bareword that got its "*" and an unterminated quote holding a keyword
C29_Witness ==
    /\ pc = "prefixified"
    /\ query = <<"a", " ", "DQ", "O", "r">>
    /\ fts = <<"a", "*", " ", "DQ", "O", "r">>
    /\ PrefixifyQuery(fts) = fts


(***************************************************************************)
(* highlight_text_html: character references                               *)
(***************************************************************************)
EscapedChars == {"&", "<", ">", "DQ", "SQ"}

\* the characters a browser shows for the body x, read from position k: the tags
\* <mark>, </mark> show nothing, <br> breaks the line, a character reference
\* shows its character
RECURSIVE Rendered(_, _)
Rendered(x, k) ==
    IF k > Len(x) THEN <<>>
    ELSE IF PrefixAt(x, k, MarkOpen) THEN Rendered(x, k + Len(MarkOpen))
    ELSE IF PrefixAt(x, k, MarkClose) THEN Rendered(x, k + Len(MarkClose))
    ELSE IF PrefixAt(x, k, BrTag) THEN <<"NL">> \o Rendered(x, k + Len(BrTag))
    ELSE IF \E c \in EscapedChars : PrefixAt(x, k, HtmlEscapeCh(c))
         THEN LET c == CHOOSE d \in EscapedChars : PrefixAt(x, k, HtmlEscapeCh(d))
              IN  <<c>> \o Rendered(x, k + Len(HtmlEscapeCh(c)))
    ELSE <<x[k]>> \o Rendered(x, k + 1)

\* C30: highlight never places a <mark> boundary inside a character reference
\* produced by escaping: each escaped character of the text is intact in the
\* output, so the fragment renders the characters of the original text.
C30_ReferencesIntact ==
    pc = "highlighted" => Rendered(Inner(html), 1) = text

====
